---- MODULE Spec2Model ----
(***************************************************************************)
(* Model of fix_all_content.py: the per-file transform fix_file (ordered   *)
(* literal replacements followed by regular-expression deletions) and the  *)
(* main loop that runs it over the discovered HTML files.                  *)
(*                                                                         *)
(* A text is a sequence of tokens.  A token stands for a run of characters *)
(* that no pattern of the script can split: a word, a tag opener such as   *)
(* "<a" or "</h1", or one punctuation character.  Every character that a   *)
(* character class of the script tests (">", "<", the two quotes, white    *)
(* space, "-") is a token of its own, so matching on tokens agrees with    *)
(* matching on the characters they spell.  A file on disk is a sequence of *)
(* byte tokens; reading decodes it and writing encodes it.                 *)
(***************************************************************************)
EXTENDS Integers, Sequences, FiniteSets, TLC

VARIABLES html_files, idx, pc, disk, disk0, original, content, changed,
          changes, raised, opened_w, processed, rewritten

vars == <<html_files, idx, pc, disk, disk0, original, content, changed,
          changes, raised, opened_w, processed, rewritten>>

(***************************************************************************)
(* Bounds of the model.                                                    *)
(***************************************************************************)
NumFiles == 2
MaxFrags == 3
FileFrags == 2

(***************************************************************************)
(* Tokens.                                                                 *)
(***************************************************************************)
EM == "U+2014"
EN == "U+2013"
HY == "-"
SP == " "
LF == "LF"
CR == "CR"
RC == "U+FFFD"
DQ == "QUOT"
SQ == "'"
GT == ">"
CM == ","
AMP == "&"
NW == "Nationwide"
SH == "Shipping"

\* Byte tokens that differ from the character they encode or decode to.
EMb == "E2 80 94"
ENb == "E2 80 93"
RCb == "EF BF BD"
BAD == "FF"

\* Number of characters a token spells (the tokens named by a code point or
\* a mnemonic spell one character).
CharLen(t) ==
    IF t \in {EM, EN, LF, CR, RC, DQ} THEN 1 ELSE Len(t)

RECURSIVE StrLen(_)
StrLen(s) == IF s = <<>> THEN 0 ELSE CharLen(Head(s)) + StrLen(Tail(s))

Range(s) == {s[i] : i \in 1..Len(s)}

(***************************************************************************)
(* str.__contains__ and str.replace: all occurrences, scanned from the     *)
(* left, without overlap.                                                  *)
(***************************************************************************)
MatchAt(s, i, p) ==
    /\ i + Len(p) - 1 <= Len(s)
    /\ \A k \in 1..Len(p) : s[i + k - 1] = p[k]

Contains(s, p) == \E i \in 1..Len(s) : MatchAt(s, i, p)

RECURSIVE ReplaceFrom(_, _, _, _)
ReplaceFrom(s, i, p, r) ==
    IF i > Len(s) THEN <<>>
    ELSE IF MatchAt(s, i, p) THEN r \o ReplaceFrom(s, i + Len(p), p, r)
    ELSE <<s[i]>> \o ReplaceFrom(s, i + 1, p, r)

Replace(s, p, r) == ReplaceFrom(s, 1, p, r)

(***************************************************************************)
(* open(file_path, 'r', encoding='utf-8', errors='replace').read():        *)
(* undecodable bytes become U+FFFD, and because newline is left at its     *)
(* default the reader translates "\r\n" and a lone "\r" to "\n".           *)
(***************************************************************************)
DecodeByte(b) ==
    CASE b = EMb -> EM
      [] b = ENb -> EN
      [] b = RCb -> RC
      [] b = BAD -> RC
      [] OTHER -> b

DecodeReplace(bytes) == [i \in 1..Len(bytes) |-> DecodeByte(bytes[i])]

RECURSIVE UniversalNewlines(_)
UniversalNewlines(s) ==
    IF s = <<>> THEN <<>>
    ELSE IF Head(s) = CR
         THEN IF Len(s) >= 2 /\ s[2] = LF
              THEN <<LF>> \o UniversalNewlines(Tail(Tail(s)))
              ELSE <<LF>> \o UniversalNewlines(Tail(s))
    ELSE <<Head(s)>> \o UniversalNewlines(Tail(s))

ReadText(bytes) == UniversalNewlines(DecodeReplace(bytes))

\* open(html_file, 'r', encoding='utf-8') of the debug dump: strict decoding.
\* The modelled files are shorter than one decoding chunk, so an undecodable
\* byte anywhere in the file makes read(500) raise UnicodeDecodeError.
StrictDecodeRaises(bytes) == BAD \in Range(bytes)

(***************************************************************************)
(* open(file_path, 'w', encoding='utf-8', newline='').write(content):      *)
(* no newline translation, every character encoded as UTF-8.               *)
(***************************************************************************)
EncodeChar(c) ==
    CASE c = EM -> EMb
      [] c = EN -> ENb
      [] c = RC -> RCb
      [] OTHER -> c

WriteBytes(text) == [i \in 1..Len(text) |-> EncodeChar(text[i])]

(***************************************************************************)
(* The rule tables of fix_file.                                            *)
(***************************************************************************)
Phrase == <<NW, SP, SH>>

patterns_nationwide ==
    << <<EM, SP>> \o Phrase,
       <<EN, SP>> \o Phrase,
       <<HY, SP>> \o Phrase,
       Phrase >>

States3 == <<"NY", CM, SP, "NJ", CM, SP, "GA">>
In == <<"in", SP>>

state_replacements ==
    << << States3 \o <<CM, SP, AMP, SP, "CT">>, <<"NJ">> >>,
       << States3 \o <<SP, AMP, SP, "CT">>, <<"NJ">> >>,
       << States3 \o <<CM, SP, "CT">>, <<"NJ">> >>,
       << States3, <<"NJ">> >>,
       << In \o States3 \o <<CM, SP, AMP, SP, "CT">>, In \o <<"NJ">> >>,
       << In \o States3 \o <<SP, AMP, SP, "CT">>, In \o <<"NJ">> >>,
       << In \o States3 \o <<CM, SP, "CT">>, In \o <<"NJ">> >>,
       << In \o States3, In \o <<"NJ">> >> >>

MiddleEastern == <<"Middle", SP, "Eastern">>

middle_eastern_replacements ==
    << << MiddleEastern \o <<SP, "Restaurant">>, <<"Halal", SP, "Restaurant">> >>,
       << MiddleEastern \o <<SP, "Cuisine">>, <<"Halal", SP, "Cuisine">> >>,
       << MiddleEastern \o <<SP, "Food">>, <<"Halal", SP, "Food">> >>,
       << <<"Middle", CM, "Eastern", CM, "Restaurant">>, <<"Halal", CM, "Restaurant">> >>,
       << <<"Middle", CM, "Eastern", CM, "Food">>, <<"Halal", CM, "Food">> >>,
       << MiddleEastern \o <<SP, AMP, SP, "Mediterranean">>, <<"Halal">> >>,
       << <<"authentic", SP>> \o MiddleEastern, <<"authentic", SP, "Halal">> >>,
       << MiddleEastern, <<"Halal">> >> >>

HotSauce == <<SH, SP, "Hot", SP, "Sauce", SP, NW>>
HotSauceAvailable == <<"Hot", SP, "Sauce", SP, "Available">>

hot_sauce_replacements ==
    << << <<"Now", SP>> \o HotSauce, HotSauceAvailable >>,
       << HotSauce, HotSauceAvailable >> >>

(***************************************************************************)
(* Character classes and case folding used by the regular expressions.     *)
(***************************************************************************)
Whitespace == {SP, LF, CR}
Quotes == {DQ, SQ}
\* the tokens that contain "<" (each starts with it)
LtTokens == {"<a", "</a", "<li", "</li", "<h1", "<h2", "</h1", "</h2",
             "<option", "</option"}

\* re.IGNORECASE: the lower-case form of the tokens that come in two cases.
Lower(t) ==
    CASE t = NW -> "nationwide"
      [] t = SH -> "shipping"
      [] t = "NY" -> "ny"
      [] t = "NJ" -> "nj"
      [] t = "GA" -> "ga"
      [] t = "CT" -> "ct"
      [] OTHER -> t

Tok(s, i) == IF i \in 1..Len(s) THEN s[i] ELSE ""

\* index of the first token at or after i that is in S; 0 when there is none
FirstIn(s, i, S) ==
    IF \E j \in i..Len(s) : s[j] \in S
    THEN CHOOSE j \in i..Len(s) : s[j] \in S /\ \A k \in i..(j - 1) : s[k] \notin S
    ELSE 0

\* \s* from i: index of the first token at or after i that is not white space
SkipWs(s, i) ==
    IF \E j \in i..Len(s) : s[j] \notin Whitespace
    THEN CHOOSE j \in i..Len(s) :
             s[j] \notin Whitespace /\ \A k \in i..(j - 1) : s[k] \in Whitespace
    ELSE IF i > Len(s) THEN i ELSE Len(s) + 1

\* "Nationwide Shipping" under IGNORECASE, one literal space
PhraseAtCI(s, i) ==
    /\ Lower(Tok(s, i)) = "nationwide"
    /\ Tok(s, i + 1) = SP
    /\ Lower(Tok(s, i + 2)) = "shipping"

(***************************************************************************)
(* The four regular expressions.  Each operator gives, for a start index,  *)
(* the index just past the match that re finds there, or 0 when there is   *)
(* no match at that index.  [^>]* followed by ">" can only stop at the     *)
(* first ">", so the end of a match is fixed by its start.                 *)
(***************************************************************************)
\* <a[^>]*aria-label=["']Nationwide Shipping["'][^>]*>Nationwide Shipping</a>
LinkEnd(s, i) ==
    IF Tok(s, i) # "<a" THEN 0
    ELSE LET g == FirstIn(s, i + 1, {GT})
         IN IF /\ g # 0
               /\ \E j \in (i + 1)..(g - 6) :
                      /\ s[j] = "aria-label="
                      /\ s[j + 1] \in Quotes
                      /\ PhraseAtCI(s, j + 2)
                      /\ s[j + 5] \in Quotes
               /\ PhraseAtCI(s, g + 1)
               /\ Tok(s, g + 4) = "</a"
               /\ Tok(s, g + 5) = GT
            THEN g + 6
            ELSE 0

\* <li[^>]*>\s*<a ... </a>\s*</li>
ListItemEnd(s, i) ==
    IF Tok(s, i) # "<li" THEN 0
    ELSE LET g == FirstIn(s, i + 1, {GT})
         IN IF g = 0 THEN 0
            ELSE LET e == LinkEnd(s, SkipWs(s, g + 1))
                 IN IF e = 0 THEN 0
                    ELSE LET c == SkipWs(s, e)
                         IN IF Tok(s, c) = "</li" /\ Tok(s, c + 1) = GT
                            THEN c + 2
                            ELSE 0

\* <h[12][^>]*>\s*Nationwide\s+Shipping\s*</h[12]>
HeadingEnd(s, i) ==
    IF Tok(s, i) \notin {"<h1", "<h2"} THEN 0
    ELSE LET g == FirstIn(s, i + 1, {GT})
         IN IF g = 0 THEN 0
            ELSE LET a == SkipWs(s, g + 1)
                     b == SkipWs(s, a + 1)
                     c == SkipWs(s, b + 1)
                 IN IF /\ Lower(Tok(s, a)) = "nationwide"
                       /\ b > a + 1
                       /\ Lower(Tok(s, b)) = "shipping"
                       /\ Tok(s, c) \in {"</h1", "</h2"}
                       /\ Tok(s, c + 1) = GT
                    THEN c + 2
                    ELSE 0

\* <option\s+value=["']mamouns-[^"']*-(?:ct|ny|nyc|ga)["'][^>]*>[^<]*</option>
OptionEnd(s, i) ==
    IF Tok(s, i) # "<option" THEN 0
    ELSE LET a == SkipWs(s, i + 1)
             q == FirstIn(s, a + 4, Quotes)
             g == FirstIn(s, q + 1, {GT})
             l == FirstIn(s, g + 1, LtTokens)
         IN IF /\ a > i + 1
               /\ Tok(s, a) = "value="
               /\ Tok(s, a + 1) \in Quotes
               /\ Tok(s, a + 2) = "mamouns"
               /\ Tok(s, a + 3) = HY
               /\ q # 0
               /\ q - 2 >= a + 4
               /\ Tok(s, q - 2) = HY
               /\ Lower(Tok(s, q - 1)) \in {"ct", "ny", "nyc", "ga"}
               /\ g # 0
               /\ l # 0
               /\ Tok(s, l) = "</option"
               /\ Tok(s, l + 1) = GT
            THEN l + 2
            ELSE 0

MatchEnd(rx, s, i) ==
    CASE rx = "link" -> LinkEnd(s, i)
      [] rx = "li" -> ListItemEnd(s, i)
      [] rx = "heading" -> HeadingEnd(s, i)
      [] rx = "option" -> OptionEnd(s, i)

Search(rx, s) == \E i \in 1..Len(s) : MatchEnd(rx, s, i) # 0

\* re.sub(rx, '', s): the matches, leftmost first and without overlap, deleted
RECURSIVE SubFrom(_, _, _)
SubFrom(rx, s, i) ==
    IF i > Len(s) THEN <<>>
    ELSE LET e == MatchEnd(rx, s, i)
         IN IF e # 0 THEN SubFrom(rx, s, e)
            ELSE <<s[i]>> \o SubFrom(rx, s, i + 1)

\* the slip of calling re.sub without assigning its result
Sub_unassigned(rx, s) == s

Sub(rx, s) == SubFrom(rx, s, 1)

\* number of matches re.sub would delete
RECURSIVE MatchesFrom(_, _, _)
MatchesFrom(rx, s, i) ==
    IF i > Len(s) THEN 0
    ELSE LET e == MatchEnd(rx, s, i)
         IN IF e # 0 THEN 1 + MatchesFrom(rx, s, e)
            ELSE MatchesFrom(rx, s, i + 1)

Matches(rx, s) == MatchesFrom(rx, s, 1)

(***************************************************************************)
(* The transform of fix_file.  A transform state carries the text, the     *)
(* list `changes` as the code appends to it, and `matched`, the number of  *)
(* rules so far whose pattern was found in the text they were applied to.  *)
(***************************************************************************)
StartState(text) == [content |-> text, changes |-> <<>>, matched |-> 0]

\* for old, new in rules: if old in content: replace, append the category
RECURSIVE ApplyLiterals(_, _, _, _)
ApplyLiterals(st, rules, category, k) ==
    IF k > Len(rules) THEN st
    ELSE IF Contains(st.content, rules[k][1])
         THEN ApplyLiterals(
                  [content |-> Replace(st.content, rules[k][1], rules[k][2]),
                   changes |-> Append(st.changes, category),
                   matched |-> st.matched + 1],
                  rules, category, k + 1)
         ELSE ApplyLiterals(st, rules, category, k + 1)

\* content = content.replace(old, new), nothing appended to changes
PlainReplace(st, rule) ==
    [st EXCEPT !.content = Replace(st.content, rule[1], rule[2]),
               !.matched = IF Contains(st.content, rule[1]) THEN @ + 1 ELSE @]

\* content = re.sub(rx, '', content), nothing appended to changes
RegexRemove(st, rx) ==
    [st EXCEPT !.content = Sub(rx, st.content),
               !.matched = IF Search(rx, st.content) THEN @ + 1 ELSE @]

NationwideRules ==
    [k \in 1..Len(patterns_nationwide) |-> <<patterns_nationwide[k], <<>> >>]

RemoveNationwide(st) ==
    ApplyLiterals(st, NationwideRules, "removed Nationwide Shipping", 1)

ReplaceStates(st) ==
    ApplyLiterals(st, state_replacements, "replaced states", 1)

ReplaceMiddleEastern(st) ==
    ApplyLiterals(st, middle_eastern_replacements, "replaced Middle Eastern", 1)

RemoveLinks(st) == RegexRemove(RegexRemove(st, "link"), "li")

RemoveHeadings(st) ==
    PlainReplace(PlainReplace(RegexRemove(st, "heading"),
                              hot_sauce_replacements[1]),
                 hot_sauce_replacements[2])

RemoveOptions(st) == RegexRemove(st, "option")

\* the text after the three literal steps (lines 22-64)
AfterLiterals(text) ==
    ReplaceMiddleEastern(ReplaceStates(RemoveNationwide(StartState(text))))

\* the whole rule list, in order (lines 22-91)
Transform(text) ==
    RemoveOptions(RemoveHeadings(RemoveLinks(AfterLiterals(text))))

Categories(st) == Range(st.changes)

(***************************************************************************)
(* fix_file(file_path) on a file holding `bytes`.  readFails / writeFails  *)
(* say whether the operating system refuses the open for reading / for     *)
(* writing; any exception is caught by the except clause (lines 98-102).   *)
(* The result holds the file's bytes afterwards, the locals original and   *)
(* content, the returned flag, the set of returned categories, whether an  *)
(* exception was caught and whether the open for writing was executed.     *)
(***************************************************************************)
Caught(bytes, text, st, triedWrite) ==
    [disk |-> bytes, original |-> text, content |-> st.content,
     changed |-> FALSE, categories |-> {}, raised |-> TRUE,
     opened_w |-> triedWrite, matched |-> st.matched]

\* the slip of writing back without the test content != original
fix_file_always_writes(bytes, readFails, writeFails) ==
    IF readFails THEN Caught(bytes, <<>>, StartState(<<>>), FALSE)
    ELSE LET text == ReadText(bytes)
             st == Transform(text)
         IN IF writeFails THEN Caught(bytes, text, st, TRUE)
            ELSE [disk |-> WriteBytes(st.content), original |-> text,
                  content |-> st.content, changed |-> TRUE,
                  categories |-> Categories(st), raised |-> FALSE,
                  opened_w |-> TRUE, matched |-> st.matched]

fix_file(bytes, readFails, writeFails) ==
    IF readFails THEN Caught(bytes, <<>>, StartState(<<>>), FALSE)
    ELSE LET text == ReadText(bytes)
             st == Transform(text)
         IN IF st.content # text
            THEN IF writeFails THEN Caught(bytes, text, st, TRUE)
                 ELSE [disk |-> WriteBytes(st.content), original |-> text,
                       content |-> st.content, changed |-> TRUE,
                       categories |-> Categories(st), raised |-> FALSE,
                       opened_w |-> TRUE, matched |-> st.matched]
            ELSE [disk |-> bytes, original |-> text, content |-> st.content,
                  changed |-> FALSE, categories |-> {}, raised |-> FALSE,
                  opened_w |-> FALSE, matched |-> st.matched]

\* list(set(changes)): the categories once each, in an order the hash decides
Orderings(S) == {q \in [1..Cardinality(S) -> S] : Range(q) = S}

(***************************************************************************)
(* File contents the model draws from: concatenations of a few fragments   *)
(* of one library.  The libraries hold the phrases the rules look for,     *)
(* pieces of them (so that a deletion can join two pieces), whole markup   *)
(* elements, line terminators and an undecodable byte.                     *)
(***************************************************************************)
PhraseLower == <<"nationwide", SP, "shipping">>

LinkOf(phrase) ==
    <<"<a", SP, "aria-label=", DQ>> \o phrase \o <<DQ, GT>> \o phrase \o <<"</a", GT>>

LibShipping ==
    { <<EMb, SP>> \o Phrase, <<ENb, SP>> \o Phrase, <<HY, SP>> \o Phrase,
      Phrase, <<EMb, SP, NW>>, <<NW>>, <<SP, SH>>, <<CR, LF>>, <<BAD>> }

LibMarkup ==
    { LinkOf(Phrase), LinkOf(PhraseLower),
      <<"<li", GT, LF>>, <<LF, "</li", GT>>,
      <<"<h1", GT>> \o Phrase \o <<"</h1", GT>>,
      <<"<h2", GT, "nationwide", LF, "shipping", "</h2", GT>>,
      <<"Middle", SP>>, <<"Eastern">> }

LibStates ==
    { States3, <<CM, SP, AMP, SP, "CT">>, <<SP, AMP, SP, "CT">>, <<CM, SP, "CT">>,
      <<"in", SP>>, <<"in", SP, "NY", CM, SP>>, <<CM, SP, "GA">> }

LibCuisine ==
    { MiddleEastern, <<SP, "Restaurant">>, <<SP, "Cuisine">>, <<SP, "Food">>,
      <<"authentic", SP>>, <<SP, AMP, SP, "Mediterranean">>,
      <<"Middle", CM, "Eastern", CM>>, <<"Food">> }

LibOptions ==
    { <<"<option", SP, "value=", DQ, "mamouns", HY>>,
      <<"falafel", HY, "nyc", DQ, GT>>, <<"falafel", HY, "nj", DQ, GT>>,
      <<"x", HY, "CT", SQ, GT>>, <<"Label", "</option", GT>>,
      <<"Now", SP>>, HotSauce, <<LF>> }

Libraries == {LibShipping, LibMarkup, LibStates, LibCuisine, LibOptions}

RECURSIVE Concats(_, _)
Concats(lib, n) ==
    IF n = 0 THEN {<<>>}
    ELSE LET shorter == Concats(lib, n - 1)
         IN shorter \cup {f \o t : f \in lib, t \in shorter}

Inputs(n) == UNION {Concats(lib, n) : lib \in Libraries}

\* the contents a discovered file may have, and those fix_file alone is run on
FileInputs == Inputs(FileFrags)
FixInputs == Inputs(MaxFrags)

FileNames == {"index.html", "page.html"}

(***************************************************************************)
(* State.  html_files, idx, processed, changed and changes are the main    *)
(* loop's variables; disk is the content of the file at hand and disk0     *)
(* what it was before the call; original, content are fix_file's locals    *)
(* as they stand when it returns; raised and opened_w record whether the   *)
(* except clause ran and whether line 94 was executed; rewritten counts    *)
(* the files whose write succeeded.                                        *)
(***************************************************************************)
NoFrame ==
    /\ disk' = <<>>
    /\ disk0' = <<>>
    /\ original' = <<>>
    /\ content' = <<>>
    /\ raised' = FALSE
    /\ opened_w' = FALSE

\* the call changed, changes = fix_file(...) on `bytes`
Call(bytes) ==
    \E readFails, writeFails \in BOOLEAN :
        \E r \in {fix_file(bytes, readFails, writeFails)} :
           /\ disk0' = bytes
           /\ disk' = r.disk
           /\ original' = r.original
           /\ content' = r.content
           /\ changed' = r.changed
           /\ changes' \in Orderings(r.categories)
           /\ raised' = r.raised
           /\ opened_w' = r.opened_w
           /\ rewritten' = IF r.changed THEN rewritten + 1 ELSE rewritten

Init ==
    /\ html_files \in [1..NumFiles -> FileNames]
    /\ idx = 0
    /\ pc = "loop"
    /\ disk = <<>>
    /\ disk0 = <<>>
    /\ original = <<>>
    /\ content = <<>>
    /\ changed = FALSE
    /\ changes = <<>>
    /\ raised = FALSE
    /\ opened_w = FALSE
    /\ processed = 0
    /\ rewritten = 0

\* lines 116-126 for a file whose debug dump raises: the exception is not
\* inside any try, so the process ends with a traceback
DebugDumpRaises ==
    /\ pc = "loop"
    /\ idx < Len(html_files)
    /\ html_files[idx + 1] = "index.html"
    /\ \E bytes \in FileInputs, openFails \in BOOLEAN :
           /\ openFails \/ StrictDecodeRaises(bytes)
           /\ disk' = bytes
           /\ disk0' = bytes
    /\ idx' = idx + 1
    /\ pc' = "crashed"
    /\ UNCHANGED <<html_files, original, content, changed, changes, raised,
                   opened_w, processed, rewritten>>

\* lines 116-127: take the next file, dump index.html, call fix_file
Iterate ==
    /\ pc = "loop"
    /\ idx < Len(html_files)
    /\ \E bytes \in FileInputs :
           /\ html_files[idx + 1] = "index.html" => ~StrictDecodeRaises(bytes)
           /\ Call(bytes)
    /\ idx' = idx + 1
    /\ pc' = "ret"
    /\ UNCHANGED <<html_files, processed>>

\* lines 128-133: count and print a changed file
Report ==
    /\ pc = "ret"
    /\ processed' = IF changed THEN processed + 1 ELSE processed
    /\ pc' = "loop"
    /\ NoFrame
    /\ UNCHANGED <<html_files, idx, changed, changes, rewritten>>

\* line 135: the summary line
Summary ==
    /\ pc = "loop"
    /\ idx = Len(html_files)
    /\ pc' = "done"
    /\ UNCHANGED <<html_files, idx, disk, disk0, original, content, changed,
                   changes, raised, opened_w, processed, rewritten>>

Next == DebugDumpRaises \/ Iterate \/ Report \/ Summary

Spec == Init /\ [][Next]_vars

(***************************************************************************)
(* fix_file alone, on one file drawn from the larger input set, and run    *)
(* once more on what the first run wrote.                                  *)
(***************************************************************************)
InitFix ==
    /\ html_files = <<"page.html">>
    /\ idx = 1
    /\ pc = "call"
    /\ disk \in FixInputs
    /\ disk0 = disk
    /\ original = <<>>
    /\ content = <<>>
    /\ changed = FALSE
    /\ changes = <<>>
    /\ raised = FALSE
    /\ opened_w = FALSE
    /\ processed = 0
    /\ rewritten = 0

FirstRun ==
    /\ pc = "call"
    /\ Call(disk)
    /\ pc' = "ret"
    /\ UNCHANGED <<html_files, idx, processed>>

\* the script run again on a file its first run rewrote
SecondRun ==
    /\ pc = "ret"
    /\ changed
    /\ Call(disk)
    /\ pc' = "ret2"
    /\ UNCHANGED <<html_files, idx, processed>>

NextFix == FirstRun \/ SecondRun

SpecFix == InitFix /\ [][NextFix]_vars

(***************************************************************************)
(* Vocabulary of the properties.                                           *)
(***************************************************************************)
Returned == pc \in {"ret", "ret2"}

\* every literal pattern fix_file looks for, and its four regular expressions
LiteralPatterns ==
    {patterns_nationwide[k] : k \in 1..Len(patterns_nationwide)}
    \cup {state_replacements[k][1] : k \in 1..Len(state_replacements)}
    \cup {middle_eastern_replacements[k][1] : k \in 1..Len(middle_eastern_replacements)}
    \cup {hot_sauce_replacements[k][1] : k \in 1..Len(hot_sauce_replacements)}

Regexes == {"link", "li", "heading", "option"}

LiteralRules ==
    {NationwideRules[k] : k \in 1..Len(NationwideRules)}
    \cup {state_replacements[k] : k \in 1..Len(state_replacements)}
    \cup {middle_eastern_replacements[k] : k \in 1..Len(middle_eastern_replacements)}
    \cup {hot_sauce_replacements[k] : k \in 1..Len(hot_sauce_replacements)}

\* the text holds no literal pattern and no regular expression matches it
MatchesNoRule(text) ==
    /\ \A p \in LiteralPatterns : ~Contains(text, p)
    /\ \A rx \in Regexes : ~Search(rx, text)

\* the line terminators of a text or of a file, in order
IsTerminator(t) == t \in {CR, LF}
Terminators(s) == SelectSeq(s, IsTerminator)

\* number of tokens of s that are in S
Occurrences(s, S) == Cardinality({i \in 1..Len(s) : s[i] \in S})

\* number of occurrences of p in s, counted from the left without overlap
RECURSIVE CountFrom(_, _, _)
CountFrom(s, i, p) ==
    IF i > Len(s) THEN 0
    ELSE IF MatchAt(s, i, p) THEN 1 + CountFrom(s, i + Len(p), p)
    ELSE CountFrom(s, i + 1, p)

Count(s, p) == CountFrom(s, 1, p)

\* every literal rule replaces its pattern by a strictly shorter string
RulesShorten ==
    \A r \in LiteralRules : StrLen(r[2]) < StrLen(r[1])

\* the text as it stands when the cuisine step starts
BeforeCuisine(text) == ReplaceStates(RemoveNationwide(StartState(text))).content

(***************************************************************************)
(* C1 (as claimed): a second run over a file the first run transformed     *)
(* finds the content unchanged and does not rewrite it.                    *)
(***************************************************************************)
C1_SecondRunChangesNothing ==
    pc = "ret2" => ~changed /\ ~opened_w /\ disk = disk0

(***************************************************************************)
(* C2 (as claimed): no file, whatever its name and bytes, ends the run     *)
(* before the summary line: the loop never dies on a file.                 *)
(***************************************************************************)
C2_NoFileAbortsBatch == pc # "crashed"

(***************************************************************************)
(* C3: a file whose text matches none of the rules is never opened for     *)
(* writing; fix_file returns (False, []) and the bytes on disk are the     *)
(* bytes found, undecodable bytes and CRLF line endings included.          *)
(***************************************************************************)
C3_UnmatchedFileUntouched ==
    (Returned /\ MatchesNoRule(ReadText(disk0)))
        => ~opened_w /\ ~changed /\ changes = <<>> /\ disk = disk0

\* C3, witness: a returned call on a file with an undecodable byte and a
\* CRLF, no rule matching, no exception
C3_Witness ==
    /\ pc = "ret"
    /\ ~raised
    /\ MatchesNoRule(ReadText(disk0))
    /\ BAD \in Range(disk0)
    /\ Contains(disk0, <<CR, LF>>)
    /\ disk = disk0

(***************************************************************************)
(* C4 (as claimed): when a file is rewritten and the rules removed no line *)
(* terminator, the written file has the line terminators of the original,  *)
(* byte for byte.                                                          *)
(***************************************************************************)
C4_LineEndingsPreserved ==
    (Returned /\ changed /\ Terminators(content) = Terminators(original))
        => Terminators(disk) = Terminators(disk0)

(***************************************************************************)
(* C5 (as claimed): after the transform no shipping link element is left,  *)
(* and every such element of the input, with its enclosing <li>, is gone   *)
(* as a whole: each takes its "<a" (and "<li") out of the text.            *)
(***************************************************************************)
C5_LinkElementsRemoved ==
    (Returned /\ ~raised) =>
        /\ ~Search("link", content)
        /\ Occurrences(content, {"<a"}) + Matches("link", original)
               <= Occurrences(original, {"<a"})
        /\ Occurrences(content, {"<li"}) + Matches("li", original)
               <= Occurrences(original, {"<li"})

(***************************************************************************)
(* C6 (as claimed): every <h1>/<h2> element of the input whose sole text   *)
(* is the shipping phrase is removed as a whole: neither its opening nor   *)
(* its closing tag remains.                                                *)
(***************************************************************************)
C6_HeadingsRemoved ==
    (Returned /\ ~raised) =>
        /\ Occurrences(content, {"<h1", "<h2"}) + Matches("heading", original)
               <= Occurrences(original, {"<h1", "<h2"})
        /\ Occurrences(content, {"</h1", "</h2"}) + Matches("heading", original)
               <= Occurrences(original, {"</h1", "</h2"})

(***************************************************************************)
(* C7 (as claimed): a rewritten file is reported with a duplicate-free,    *)
(* non-empty collection holding the category of every literal step that    *)
(* fired, and the final count is the number of files rewritten.            *)
(***************************************************************************)
C7_ChangedFileHasCategories ==
    /\ (pc = "ret" /\ changed) =>
           /\ Cardinality(Range(changes)) = Len(changes)
           /\ Range(changes) = Categories(Transform(original))
           /\ changes # <<>>
    /\ pc = "done" => processed = rewritten

(***************************************************************************)
(* C8, first part: every occurrence of a listed phrasing gets its own      *)
(* mapping: the text after the cuisine step holds at least as many copies  *)
(* of the mapping as the text before it held of the phrasing.              *)
(***************************************************************************)
C8_EachPhrasingMapped ==
    (Returned /\ ~raised) =>
        \A k \in 1..Len(middle_eastern_replacements) :
            Count(AfterLiterals(original).content, middle_eastern_replacements[k][2])
                >= Count(BeforeCuisine(original), middle_eastern_replacements[k][1])

\* C8, second part: after the transform no "Middle Eastern" remains
C8_NoMiddleEasternLeft ==
    (Returned /\ ~raised) => ~Contains(content, MiddleEastern)

(***************************************************************************)
(* C8 (as claimed): each listed phrasing is replaced by its own mapping,   *)
(* each bare term by "Halal", and after the transform no "Middle Eastern"  *)
(* remains.                                                                *)
(***************************************************************************)
C8_CuisineReplacement == C8_EachPhrasingMapped /\ C8_NoMiddleEasternLeft

\* C9, first part: every dash-prefixed occurrence of the input took its dash
\* with it
C9_DashesGoWithPhrase ==
    (Returned /\ ~raised) =>
        \A d \in {EM, EN, HY} :
            Occurrences(content, {d}) + Count(original, <<d, SP>> \o Phrase)
                <= Occurrences(original, {d})

\* C9, second part: the output holds no "Nationwide Shipping"
C9_NoPhraseLeft ==
    (Returned /\ ~raised) => ~Contains(content, Phrase)

(***************************************************************************)
(* C9 (as claimed): for each of the four variants, every occurrence is     *)
(* removed together with its leading dash: the output holds neither the    *)
(* phrase nor the dash that preceded it.                                   *)
(***************************************************************************)
C9_ShippingPhraseRemoved == C9_DashesGoWithPhrase /\ C9_NoPhraseLeft

(***************************************************************************)
(* C10 (as claimed): every rule shortens what it matches, so fix_file      *)
(* writes the file and returns True exactly when some rule matched, and a  *)
(* file to whose change list a category was appended is reported changed.  *)
(***************************************************************************)
C10_ChangedIffMatched ==
    Returned =>
        \A st \in {Transform(original)} :
            /\ RulesShorten
            /\ StrLen(content) <= StrLen(original)
            /\ (changed /\ opened_w) <=> (st.matched > 0)
            /\ st.changes # <<>> => changed

(***************************************************************************)
(* C10 (amended): the same, for the calls in which no exception is caught; *)
(* such a call writes exactly the transformed text.                        *)
(***************************************************************************)
C10_ChangedIffMatchedUnlessRaised ==
    (Returned /\ ~raised) =>
        \A st \in {Transform(original)} :
            /\ RulesShorten
            /\ StrLen(content) <= StrLen(original)
            /\ st.matched > 0 => StrLen(content) < StrLen(original)
            /\ changed <=> (st.matched > 0)
            /\ opened_w <=> changed
            /\ changed => disk = WriteBytes(content)
            /\ st.changes # <<>> => changed

\* C10, witness: a call that returned True for a file in which only rules
\* that append no category matched
C10_Witness ==
    /\ pc = "ret"
    /\ changed
    /\ opened_w
    /\ \E st \in {Transform(original)} : st.matched > 0 /\ st.changes = <<>>

====
